---- MODULE Spec2Model ----
(***************************************************************************)
(* Model of the website-builder agent: the sandboxed file tools            *)
(* (agent/tools.py), the planner -> architect -> coder -> reviewer graph   *)
(* (agent/graph.py) and the background task that drives it (agent/api.py). *)
(*                                                                         *)
(* A file name is a sequence of glyphs (chunks of characters that hold no  *)
(* "/"), so that "generated_project_10" is <<"generated","_","project",    *)
(* "_","1","0">>; an absolute path is a sequence of names from "/".        *)
(* An optional value (Python's None) is a set with at most one element.    *)
(***************************************************************************)
EXTENDS Integers, Sequences, FiniteSets, TLC

VARIABLES
    dirs,          \* the directories that exist (absolute canonical paths)
    files,         \* the regular files that exist: path -> content
    symlinks,      \* the symbolic links that exist: path -> target path
    thread_local,  \* tools._thread_local.PROJECT_ROOT of every thread
    global_root,   \* tools._global_project_root
    call,          \* the file-tool call the last step made, and its outcome
    alloc,         \* per run thread: where it is in init_project_root
    allocated,     \* history: the serials init_project_root created, in order
    task,          \* task_storage[task_id] of the one tracked task, or None
    pc,            \* where run_agent_task is
    node,          \* the graph node that runs next
    state,         \* the graph state handed from node to node
    merges,        \* whether the graph merges a node's return into the state
    supersteps,    \* the graph steps this invocation has taken
    session,       \* the coder step's tool session
    executed,      \* history: the steps the coder began, in order
    invoked,       \* history: how often each node was entered
    exc,           \* the exception that ended the run, if any
    oracle         \* history: what the planner's and architect's oracle returned,
                   \* and the steps of the TaskPlan the architect's returned

fsVars   == <<dirs, files, symlinks>>
rootVars == <<thread_local, global_root>>
allocVars == <<alloc, allocated>>
pipeVars == <<task, pc, node, state, merges, supersteps, session, executed,
              invoked, exc, oracle>>
vars     == <<fsVars, rootVars, call, allocVars, pipeVars>>

-----------------------------------------------------------------------------
(* Names and paths *)

DOTDOT == <<"..">>
DOT    == <<".">>

Digit == <<"0", "1", "2", "3", "4", "5", "6", "7", "8", "9">>

RECURSIVE Digits(_)
Digits(n) ==
    IF n < 10 THEN <<Digit[n + 1]>>
    ELSE Digits(n \div 10) \o <<Digit[(n % 10) + 1]>>

\* f"generated_project_{serial_id}"
ProjectName(n) == <<"generated", "_", "project", "_">> \o Digits(n)

\* pathlib.Path.cwd(): the server's working directory, /srv
Cwd == << <<"srv">> >>

ProjectPath(n) == Append(Cwd, ProjectName(n))

Front(s) == SubSeq(s, 1, Len(s) - 1)
Last(s)  == s[Len(s)]

\* q is p or an ancestor of p, component by component
IsAncestorOrSelf(q, p) ==
    /\ Len(q) <= Len(p)
    /\ SubSeq(p, 1, Len(q)) = q

\* p and every ancestor of p below "/"
Prefixes(p) == { SubSeq(p, 1, k) : k \in 1..Len(p) }

None == {}
Some(x) == {x}
The(opt) == CHOOSE x \in opt : TRUE

\* a path argument as the caller wrote it: the number of leading "/" and
\* the "/"-separated components that follow
PathArg(lead, segs) == [lead |-> lead, segs |-> segs]

Rel(segs) == PathArg(0, segs)

-----------------------------------------------------------------------------
(* tools.py: the root binding *)

\* get_project_root with the two lookups in the other order: the shared
\* default first, the caller's own binding only when there is none
get_project_root_global_first(t) ==
    IF global_root # None THEN global_root ELSE thread_local[t]

get_project_root(t) ==
    IF thread_local[t] # None THEN thread_local[t] ELSE global_root

\* the bindings after set_project_root(path) on thread t
set_project_root_tl(t, path) == [thread_local EXCEPT ![t] = Some(path)]

-----------------------------------------------------------------------------
(* tools.py: path resolution *)

\* str.lstrip('/')
lstrip(path) == [path EXCEPT !.lead = 0]

\* PROJECT_ROOT / path: an absolute right operand replaces the left one
Join(root, path) == IF path.lead > 0 THEN path.segs ELSE root \o path.segs

\* pathlib.Path.resolve(): "." dropped, ".." climbs from the resolved
\* prefix, a symbolic link is replaced by its target
RECURSIVE ResolveFrom(_, _, _)
ResolveFrom(links, cur, rest) ==
    IF rest = <<>> THEN cur
    ELSE LET s == Head(rest)
             nxt == Append(cur, s)
         IN  IF s = DOT THEN ResolveFrom(links, cur, Tail(rest))
             ELSE IF s = DOTDOT
                  THEN ResolveFrom(links,
                                   IF cur = <<>> THEN <<>> ELSE Front(cur),
                                   Tail(rest))
             ELSE ResolveFrom(links,
                              IF nxt \in DOMAIN links THEN links[nxt] ELSE nxt,
                              Tail(rest))

resolve(p) == ResolveFrom(symlinks, <<>>, p)

\* PurePath.relative_to(root) succeeds
relative_to(p, root) == IsAncestorOrSelf(root, p)

Raised(kind) == [kind |-> kind, p |-> <<>>]

\* a variant that tests containment on the joined path, before resolving it
safe_path_unresolved(t, path) ==
    LET PROJECT_ROOT == get_project_root(t)
    IN  IF PROJECT_ROOT = None THEN Raised("RuntimeError")
        ELSE LET p == Join(The(PROJECT_ROOT), lstrip(path))
             IN  IF relative_to(p, The(PROJECT_ROOT))
                 THEN [kind |-> "ok", p |-> resolve(p)]
                 ELSE Raised("ValueError")

safe_path_for_project(t, path) ==
    LET PROJECT_ROOT == get_project_root(t)
    IN  IF PROJECT_ROOT = None THEN Raised("RuntimeError")
        ELSE LET p    == resolve(Join(The(PROJECT_ROOT), lstrip(path)))
                 root == resolve(The(PROJECT_ROOT))
             IN  IF relative_to(p, root)
                 THEN [kind |-> "ok", p |-> p]
                 ELSE Raised("ValueError")


-----------------------------------------------------------------------------
(* Text files.  A text is a sequence of characters; a run of characters     *)
(* that holds no line ending is written as one element.                     *)

CR == "\\r"
LF == "\\n"

\* os.linesep of the server (POSIX)
linesep == <<LF>>

\* open(p, "w", encoding="utf-8").write(text): with the default newline
\* argument every "\n" is written as os.linesep
RECURSIVE write_text(_)
write_text(text) ==
    IF text = <<>> THEN <<>>
    ELSE (IF Head(text) = LF THEN linesep ELSE <<Head(text)>>)
         \o write_text(Tail(text))

\* open(p, "r", encoding="utf-8").read(): with the default newline argument
\* "\r\n" and "\r" are returned as "\n"
RECURSIVE read_text(_)
read_text(data) ==
    IF data = <<>> THEN <<>>
    ELSE IF Head(data) = CR
         THEN <<LF>> \o read_text(IF Len(data) >= 2 /\ data[2] = LF
                                  THEN SubSeq(data, 3, Len(data))
                                  ELSE Tail(data))
    ELSE <<Head(data)>> \o read_text(Tail(data))

-----------------------------------------------------------------------------
(* tools.py: the file tools, as functions of the file system.  Each returns *)
(* what the call returns or raises (kind) and the file system it leaves.    *)

Ret(kind, p, text, listing, code, d, f, l) ==
    [kind |-> kind, p |-> p, text |-> text, listing |-> listing, code |-> code,
     dirs |-> d, files |-> f, symlinks |-> l]

\* the call raised `kind` and touched nothing
Raise(kind) == Ret(kind, <<>>, <<>>, {}, 0, dirs, files, symlinks)

\* the call returned and touched nothing
Return(p, text, listing) == Ret("ok", p, text, listing, 0, dirs, files, symlinks)

exists(p) == p \in dirs \/ p \in DOMAIN files

\* f with f[p] set to c, p added to the domain when new
Put(f, p, c) == [q \in DOMAIN f \cup {p} |-> IF q = p THEN c ELSE f[q]]

\* a variant that clamps an escaping path to its last name under the root
write_file_clamped(t, path, content) ==
    LET sp == safe_path_for_project(t, path)
        p  == Append(The(get_project_root(t)), Last(path.segs))
    IN  IF sp.kind = "RuntimeError" THEN Raise(sp.kind)
        ELSE IF sp.kind = "ok"
             THEN Ret("ok", sp.p, <<"WROTE">>, {}, 0, dirs \cup Prefixes(Front(sp.p)),
                      Put(files, sp.p, write_text(content)), symlinks)
        ELSE Ret("ok", p, <<"WROTE">>, {}, 0, dirs, Put(files, p, write_text(content)), symlinks)

write_file(t, path, content) ==
    LET sp == safe_path_for_project(t, path)
    IN  IF sp.kind # "ok" THEN Raise(sp.kind)
        ELSE LET parent == Front(sp.p)
             IN  \* p.parent.mkdir(parents=True, exist_ok=True)
                 IF \E a \in Prefixes(parent) : a \in DOMAIN files
                 THEN Raise("OSError")
                 \* open(p, "w")
                 ELSE IF sp.p \in dirs THEN Raise("OSError")
                 ELSE Ret("ok", sp.p, <<"WROTE">>, {}, 0,
                          dirs \cup Prefixes(parent),
                          Put(files, sp.p, write_text(content)),
                          symlinks)

\* a variant that raises when nothing exists at the path
read_file_strict(t, path) ==
    LET sp == safe_path_for_project(t, path)
    IN  IF sp.kind # "ok" THEN Raise(sp.kind)
        ELSE IF sp.p \notin DOMAIN files THEN Raise("OSError")
        ELSE Return(sp.p, read_text(files[sp.p]), {})

read_file(t, path) ==
    LET sp == safe_path_for_project(t, path)
    IN  IF sp.kind # "ok" THEN Raise(sp.kind)
        ELSE IF ~exists(sp.p) THEN Return(sp.p, <<>>, {})
        ELSE IF sp.p \in dirs THEN Raise("OSError")
        ELSE Return(sp.p, read_text(files[sp.p]), {})

\* a variant that answers with the working directory when no root is bound
get_current_directory_cwd(t) ==
    LET PROJECT_ROOT == get_project_root(t)
    IN  IF PROJECT_ROOT = None THEN Return(Cwd, <<>>, {})
        ELSE Return(The(PROJECT_ROOT), <<>>, {})

get_current_directory(t) ==
    LET PROJECT_ROOT == get_project_root(t)
    IN  IF PROJECT_ROOT = None THEN Raise("RuntimeError")
        ELSE Return(The(PROJECT_ROOT), <<>>, {})

list_files(t, directory) ==
    LET PROJECT_ROOT == get_project_root(t)
        sp == safe_path_for_project(t, directory)
    IN  IF PROJECT_ROOT = None THEN Raise("RuntimeError")
        ELSE IF sp.kind # "ok" THEN Raise(sp.kind)
        ELSE IF sp.p \notin dirs
             THEN Return(sp.p, <<"ERROR: not a directory">>, {})
        ELSE LET root  == The(PROJECT_ROOT)
                 found == { f \in DOMAIN files :
                              IsAncestorOrSelf(sp.p, f) /\ f # sp.p }
             IN  IF \E f \in found : ~IsAncestorOrSelf(root, f)
                 THEN Raise("ValueError")     \* f.relative_to(PROJECT_ROOT)
                 ELSE Return(sp.p,
                             IF found = {} THEN <<"No files found.">> ELSE <<>>,
                             { SubSeq(f, Len(root) + 1, Len(f)) : f \in found })

\* the shell commands the model runs
Cmds == {"touch out.txt", "ln -s /etc lnk", "sleep 60"}

\* run_cmd(cmd, cwd, timeout); an absent or empty cwd is Rel(<<>>)
run_cmd(t, cmd, cwd) ==
    LET PROJECT_ROOT == get_project_root(t)
        sp == IF cwd = Rel(<<>>)
              THEN [kind |-> "ok", p |-> The(PROJECT_ROOT)]
              ELSE safe_path_for_project(t, cwd)
        out == Append(sp.p, <<"out.txt">>)
        lnk == Append(sp.p, <<"lnk">>)
    IN  IF PROJECT_ROOT = None THEN Raise("RuntimeError")
        ELSE IF sp.kind # "ok" THEN Raise(sp.kind)
        ELSE IF sp.p \notin dirs THEN Raise("OSError")
        ELSE IF cmd = "sleep 60" THEN Raise("TimeoutExpired")
        ELSE IF cmd = "touch out.txt"
             THEN Ret("ok", sp.p, <<>>, {}, 0, dirs,
                      IF exists(out) \/ out \in DOMAIN symlinks
                      THEN files ELSE Put(files, out, <<>>),
                      symlinks)
        ELSE IF cmd = "ln -s /etc lnk"
             THEN IF exists(lnk) \/ lnk \in DOMAIN symlinks
                  THEN Ret("ok", sp.p, <<>>, {}, 1, dirs, files, symlinks)
                  ELSE Ret("ok", sp.p, <<>>, {}, 0, dirs, files,
                           Put(symlinks, lnk, << <<"etc">> >>))
        ELSE Ret("ok", sp.p, <<>>, {}, 127, dirs, files, symlinks)


-----------------------------------------------------------------------------
(* tools.py: allocation of a project root *)

SetMax(S) == CHOOSE m \in S : \A x \in S : x <= m

\* glob("generated_project_*")
GlobMatch(name) ==
    /\ Len(name) >= 4
    /\ SubSeq(name, 1, 4) = <<"generated", "_", "project", "_">>

\* name.split("_")[-1]
LastToken(name) ==
    LET us == { i \in 1..Len(name) : name[i] = "_" }
    IN  IF us = {} THEN name ELSE SubSeq(name, SetMax(us) + 1, Len(name))

IsDigit(g) == \E i \in 1..10 : Digit[i] = g

DigitValue(g) == (CHOOSE i \in 1..10 : Digit[i] = g) - 1

\* int(token) does not raise ValueError
IntOk(tok) == tok # <<>> /\ \A i \in 1..Len(tok) : IsDigit(tok[i])

RECURSIVE IntValue(_)
IntValue(tok) ==
    IF tok = <<>> THEN 0
    ELSE IntValue(Front(tok)) * 10 + DigitValue(Last(tok))

\* Path.is_dir(): a directory, or a link to one
is_dir(p) == p \in dirs \/ (p \in DOMAIN symlinks /\ symlinks[p] \in dirs)

\* the serial_ids that get_next_serial_id collects
serial_ids ==
    LET entries == { p \in dirs \cup DOMAIN files \cup DOMAIN symlinks :
                       p # <<>> /\ Front(p) = Cwd }
        existing_dirs == { d \in entries : GlobMatch(Last(d)) /\ is_dir(d) }
    IN  { IntValue(LastToken(Last(d))) :
            d \in { e \in existing_dirs : IntOk(LastToken(Last(e))) } }

\* a variant that hands out the smallest serial not in use
get_next_serial_id_first_free ==
    CHOOSE n \in 1..(Cardinality(serial_ids) + 1) :
        n \notin serial_ids /\ \A m \in 1..(n - 1) : m \in serial_ids

get_next_serial_id ==
    IF serial_ids = {} THEN 1 ELSE SetMax(serial_ids) + 1

Threads    == {"t1", "t2", "w1", "w2"}
RunThreads == {"t1", "t2"}

\* the pool thread that runs the tool calls of run thread r
Worker(r) == IF r = "t1" THEN "w1" ELSE "w2"

project_path(r) == ProjectPath(alloc[r].serial)

NoCall ==
    [op |-> "none", thread |-> "t1", path |-> Rel(<<>>), content |-> <<>>,
     cmd |-> "", kind |-> "none", p |-> <<>>, text |-> <<>>, listing |-> {},
     code |-> 0]

\* init_project_root, line 164
Scan(r) ==
    /\ alloc[r].pc = "start"
    /\ alloc' = [alloc EXCEPT ![r] = [pc |-> "scanned", serial |-> get_next_serial_id]]
    /\ call' = NoCall
    /\ UNCHANGED <<fsVars, rootVars, allocated>>

\* init_project_root, lines 165-166: mkdir(parents=True, exist_ok=True)
Mkdir(r) ==
    /\ alloc[r].pc = "scanned"
    /\ IF project_path(r) \in DOMAIN files
       THEN /\ alloc' = [alloc EXCEPT ![r].pc = "failed"]
            /\ UNCHANGED <<dirs, allocated>>
       ELSE /\ alloc' = [alloc EXCEPT ![r].pc = "made"]
            /\ dirs' = dirs \cup {project_path(r)}
            /\ allocated' = Append(allocated, alloc[r].serial)
    /\ call' = NoCall
    /\ UNCHANGED <<files, symlinks, rootVars>>

\* set_project_root(project_path) by thread r
SetRoot(r) ==
    /\ thread_local' = set_project_root_tl(r, project_path(r))
    /\ global_root' = Some(project_path(r))

\* init_project_root, lines 169-171
Bind(r) ==
    /\ alloc[r].pc = "made"
    /\ SetRoot(r)
    /\ alloc' = [alloc EXCEPT ![r].pc = "bound"]
    /\ call' = NoCall
    /\ UNCHANGED <<fsVars, allocated>>

\* run_agent_task, line 82
Rebind(r) ==
    /\ alloc[r].pc = "bound"
    /\ SetRoot(r)
    /\ alloc' = [alloc EXCEPT ![r].pc = "running"]
    /\ call' = NoCall
    /\ UNCHANGED <<fsVars, allocated>>

\* coder_agent and reviewer_agent, when the graph state they are handed
\* still holds project_root: set_project_root(Path(project_root_str))
NodeBind(r) ==
    /\ alloc[r].pc = "running"
    /\ SetRoot(r)
    /\ call' = NoCall
    /\ UNCHANGED <<fsVars, allocVars>>


-----------------------------------------------------------------------------
(* Calls of the file tools by thread th *)

\* the model keeps at most this many regular files
MaxFiles == 3

CallRec(op, th, path, content, cmd, res) ==
    [op |-> op, thread |-> th, path |-> path, content |-> content, cmd |-> cmd,
     kind |-> res.kind, p |-> res.p, text |-> res.text,
     listing |-> res.listing, code |-> res.code]

Apply(res) ==
    /\ Cardinality(DOMAIN res.files) <= MaxFiles
    /\ dirs' = res.dirs
    /\ files' = res.files
    /\ symlinks' = res.symlinks

WriteFile(th, path, content) ==
    LET res == write_file(th, path, content)
    IN  /\ Apply(res)
        /\ call' = CallRec("write_file", th, path, content, "", res)
        /\ UNCHANGED <<rootVars, allocVars, pipeVars>>

ReadFile(th, path) ==
    LET res == read_file(th, path)
    IN  /\ Apply(res)
        /\ call' = CallRec("read_file", th, path, <<>>, "", res)
        /\ UNCHANGED <<rootVars, allocVars, pipeVars>>

ListFiles(th, directory) ==
    LET res == list_files(th, directory)
    IN  /\ Apply(res)
        /\ call' = CallRec("list_files", th, directory, <<>>, "", res)
        /\ UNCHANGED <<rootVars, allocVars, pipeVars>>

GetCurrentDirectory(th) ==
    LET res == get_current_directory(th)
    IN  /\ Apply(res)
        /\ call' = CallRec("get_current_directory", th, Rel(<<>>), <<>>, "", res)
        /\ UNCHANGED <<rootVars, allocVars, pipeVars>>

RunCmd(th, cmd, cwd) ==
    LET res == run_cmd(th, cmd, cwd)
    IN  /\ Apply(res)
        /\ call' = CallRec("run_cmd", th, cwd, <<>>, cmd, res)
        /\ UNCHANGED <<rootVars, allocVars, pipeVars>>

NoState ==
    [project_root |-> None, plan |-> None, task_plan |-> None,
     coder_state |-> None, status |-> None, review |-> None]

NoSession == [active |-> FALSE, iter |-> 0, wrote |-> FALSE, cs |-> None]

NoInvocations ==
    [n \in {"planner", "architect", "coder", "reviewer", "reviewer_llm"} |-> 0]

NoExc == [at |-> "", kind |-> ""]

NoOracle == [planner |-> "", architect |-> "", steps |-> <<>>, plan |-> None]

\* nothing of the pipeline runs
PipeIdle ==
    /\ task = None
    /\ pc = "idle"
    /\ node = "planner"
    /\ state = NoState
    /\ merges = FALSE
    /\ supersteps = 0
    /\ session = NoSession
    /\ executed = <<>>
    /\ invoked = NoInvocations
    /\ exc = NoExc
    /\ oracle = NoOracle

-----------------------------------------------------------------------------
(* SpecTools: one run allocates its root and the file tools are called,    *)
(* from the run's thread and from its pool thread, before and after the    *)
(* root is bound.                                                          *)

EtcPasswd == << <<"etc">>, <<"passwd">> >>

\* the contents written: plain text, and text with a carriage return and
\* line feed at its end
Contents == {<<"c1">>, <<"c2", CR, LF>>}

\* the path arguments the model passes: inside the root, climbing out of
\* it, into a sibling whose name the root's name is a prefix of, through a
\* symbolic link, and with leading "/"
ToolArgs ==
    { Rel(<< <<"a">>, <<"b">> >>),
      Rel(<< <<"a">>, DOTDOT, <<"b">> >>),
      Rel(<< <<"lnk">>, <<"passwd">> >>),
      Rel(<< DOTDOT, ProjectName(10), <<"x">> >>),
      Rel(<< DOTDOT, DOTDOT, <<"etc">>, <<"passwd">> >>),
      PathArg(1, EtcPasswd) }

DirArgs ==
    { Rel(<<>>),
      Rel(<<DOT>>),
      Rel(<< <<"a">> >>),
      Rel(<< <<"lnk">> >>),
      Rel(<< DOTDOT, <<"x">> >>) }

CwdArgs ==
    { Rel(<<>>),
      Rel(<< <<"lnk">> >>),
      Rel(<< DOTDOT, <<"x">> >>) }

BaseDirs == { <<>>, Cwd, << <<"etc">> >> }

InitFs ==
    /\ dirs = BaseDirs
    /\ files = [q \in {EtcPasswd} |-> <<"secret">>]
    /\ symlinks = [q \in {} |-> <<>>]

InitTools ==
    /\ InitFs
    /\ thread_local = [t \in Threads |-> None]
    /\ global_root = None
    /\ alloc = [r \in RunThreads |-> [pc |-> "start", serial |-> 0]]
    /\ call = NoCall
    /\ allocated = <<>>
    /\ PipeIdle

NextTools ==
    \/ Scan("t1") /\ UNCHANGED pipeVars
    \/ Mkdir("t1") /\ UNCHANGED pipeVars
    \/ Bind("t1") /\ UNCHANGED pipeVars
    \/ \E th \in {"t1", "w1"} :
          \/ \E path \in ToolArgs, content \in Contents : WriteFile(th, path, content)
          \/ \E path \in ToolArgs : ReadFile(th, path)
          \/ \E path \in DirArgs : ListFiles(th, path)
          \/ GetCurrentDirectory(th)
          \/ \E cmd \in Cmds, cwd \in CwdArgs : RunCmd(th, cmd, cwd)

SpecTools == InitTools /\ [][NextTools]_vars


-----------------------------------------------------------------------------
(* SpecResolve: safe_path_for_project applied once, to a path drawn from   *)
(* every sequence of at most MaxSegs components, under a bound root.       *)

MaxSegs == 4

SegNames ==
    { DOTDOT, <<"a">>, <<"lnk">>, <<"etc">>, <<"passwd">>, ProjectName(10) }

SeqsUpTo(S, n) == UNION { [1..k -> S] : k \in 0..n }

\* the symbolic links a root may hold: none, one that leaves the root, one
\* that stays inside it
LinkChoices(root) ==
    { [q \in {} |-> <<>>],
      [q \in {Append(root, <<"lnk">>)} |-> << <<"etc">> >>],
      [q \in {Append(root, <<"lnk">>)} |-> Append(root, <<"a">>)] }

InitResolve ==
    \E n \in {1, 10}, lead \in 0..1, segs \in SeqsUpTo(SegNames, MaxSegs) :
       /\ dirs = BaseDirs \cup {ProjectPath(n), Append(ProjectPath(n), <<"a">>)}
       /\ files = [q \in {EtcPasswd} |-> <<"secret">>]
       /\ symlinks \in LinkChoices(ProjectPath(n))
       /\ thread_local = [t \in Threads |-> IF t = "t1" THEN Some(ProjectPath(n)) ELSE None]
       /\ global_root = Some(ProjectPath(n))
       /\ alloc = [r \in RunThreads |->
                     IF r = "t1" THEN [pc |-> "running", serial |-> n]
                     ELSE [pc |-> "start", serial |-> 0]]
       /\ call = [NoCall EXCEPT !.op = "pending", !.path = PathArg(lead, segs)]
       /\ allocated = <<>>
       /\ PipeIdle

SafePath(th) ==
    /\ call.op = "pending"
    /\ LET sp == safe_path_for_project(th, call.path)
       IN  call' = [call EXCEPT !.op = "safe_path_for_project", !.thread = th,
                                !.kind = sp.kind, !.p = sp.p]
    /\ UNCHANGED <<fsVars, rootVars, allocVars, pipeVars>>

NextResolve == \E th \in {"t1", "w1"} : SafePath(th)

SpecResolve == InitResolve /\ [][NextResolve]_vars

\* the root the calling thread of the last call is bound to
CallRoot == The(get_project_root(call.thread))

\* p names the directory root or something below it
Inside(p, root) == \E k \in 0..Len(p) : SubSeq(p, 1, k) = root

DotDotEtcPasswd == << DOTDOT, DOTDOT, <<"etc">>, <<"passwd">> >>

\* C1: under a bound root, safe_path_for_project either raises the
\* path-escape error (ValueError) or returns a path whose canonical location
\* is the root or lies below it; "../../etc/passwd" is refused.
C1_PathConfinement ==
    call.op = "safe_path_for_project" =>
        /\ call.kind \in {"ok", "ValueError"}
        /\ call.kind = "ok" => Inside(resolve(call.p), resolve(CallRoot))
        /\ call.path.segs = DotDotEtcPasswd => call.kind = "ValueError"

\* "../../etc/passwd" has been passed and refused
C1_Witness ==
    /\ call.op = "safe_path_for_project"
    /\ call.path = Rel(DotDotEtcPasswd)
    /\ call.kind = "ValueError"

-----------------------------------------------------------------------------
(* Claims about the file tools, under SpecTools *)

PathOps == {"write_file", "read_file", "list_files", "run_cmd"}

\* the path argument of the last call leaves the root the caller is bound
\* to (for run_cmd, an absent cwd is the root itself)
Escaping(rootOpt, path) ==
    /\ rootOpt # None
    /\ ~Inside(resolve(The(rootOpt) \o path.segs), resolve(The(rootOpt)))

\* C9: a call of write_file, read_file, list_files or run_cmd whose path
\* resolves outside the bound root raises the path-escape error and leaves
\* every file, directory and link as it was.
C9_EscapeRejectedBeforeIO ==
    [][ (call'.op \in PathOps
         /\ Escaping(get_project_root(call'.thread), call'.path))
        => (call'.kind = "ValueError" /\ fsVars' = fsVars) ]_vars

\* write_file was called with a path that leaves the root, and raised
C9_Witness ==
    /\ call.op = "write_file"
    /\ Escaping(get_project_root(call.thread), call.path)
    /\ call.kind = "ValueError"


-----------------------------------------------------------------------------
(* SpecConc: two background tasks run at once.  Each allocates its root    *)
(* (init_project_root, step by step), binds it again (run_agent_task and   *)
(* the graph nodes), and calls the file tools from its own thread and from *)
(* the pool thread that executes its tool calls, which holds no            *)
(* thread-local binding of its own.                                        *)

IndexHtml == Rel(<< <<"index.html">> >>)

\* run r has a root bound and is using the file tools
Running(r) == alloc[r].pc \in {"bound", "running"}

\* the run a thread works for
Owner(th) == IF th \in {"t1", "w1"} THEN "t1" ELSE "t2"

InitConc ==
    /\ InitFs
    /\ thread_local = [t \in Threads |-> None]
    /\ global_root = None
    /\ alloc = [r \in RunThreads |-> [pc |-> "start", serial |-> 0]]
    /\ call = NoCall
    /\ allocated = <<>>
    /\ PipeIdle

NextConc ==
    \E r \in RunThreads :
       \/ Scan(r) /\ UNCHANGED pipeVars
       \/ Mkdir(r) /\ UNCHANGED pipeVars
       \/ Bind(r) /\ UNCHANGED pipeVars
       \/ Rebind(r) /\ UNCHANGED pipeVars
       \/ NodeBind(r) /\ UNCHANGED pipeVars
       \/ /\ Running(r)
          /\ \E th \in {r, Worker(r)} :
                \/ \E content \in Contents : WriteFile(th, IndexHtml, content)
                \/ ReadFile(th, IndexHtml)
                \/ ListFiles(th, Rel(<<>>))
                \/ GetCurrentDirectory(th)

SpecConc == InitConc /\ [][NextConc]_vars

\* C2: a file operation issued for a run (by its thread or by the pool
\* thread working for it) resolves against that run's own project root.
C2_RunIsolation ==
    (call.op \in {"write_file", "read_file", "list_files", "get_current_directory"}
     /\ call.kind = "ok")
    => Inside(call.p, project_path(Owner(call.thread)))

\* C3: two runs that have both allocated hold different serial numbers
\* (and so different project roots).
C3_DistinctSerials ==
    (\A r \in RunThreads : alloc[r].pc \in {"made", "bound", "running"})
    => alloc["t1"].serial # alloc["t2"].serial


-----------------------------------------------------------------------------
(* api.py and graph.py: one background task drives the graph              *)

\* {"recursion_limit": 100}
RecursionLimit == 100

\* the Plan values the planner's oracle may return
Plans == {"P1"}

StateKeys == {"project_root", "plan", "task_plan", "coder_state", "status", "review"}

\* the graph state after a node returned the dict ret: merged into the
\* state, or replacing it, as the graph library treats a plain dict state
Update(ret) ==
    [k \in StateKeys |->
        IF k \in DOMAIN ret THEN ret[k]
        ELSE IF merges THEN state[k] ELSE None]

\* task_storage[task_id] = {...}, build_website lines 144-153
NewTask ==
    [status |-> "pending", progress |-> "initialized", project_path |-> None,
     files |-> {}, error |-> None, completed_at |-> FALSE]

\* an exception leaves agent.invoke or init_project_root
Throw(at, kind) ==
    /\ pc' = "raised"
    /\ exc' = [at |-> at, kind |-> kind]

\* the tasks the model lets build_website start, one after the other
MaxRuns == 2

\* run_agent_task is over: it returned, or an exception left it
Over == pc \in {"done", "failed", "crashed"}

\* build_website: a first task, or the next one once the tracked task is
\* over and deleted; its background run starts with fresh locals
BuildWebsite ==
    /\ pc = "idle" \/ (task = None /\ Over)
    /\ Len(allocated) < MaxRuns
    /\ task' = Some(NewTask)
    /\ pc' = "queued"
    /\ alloc' = [alloc EXCEPT !["t1"] = [pc |-> "start", serial |-> 0]]
    /\ node' = "planner"
    /\ state' = NoState
    /\ supersteps' = 0
    /\ session' = NoSession
    /\ executed' = <<>>
    /\ invoked' = NoInvocations
    /\ exc' = NoExc
    /\ oracle' = NoOracle
    /\ call' = NoCall
    /\ UNCHANGED <<fsVars, rootVars, allocated, merges>>

\* a variant in which the assignment creates the missing record, as
\* task_storage.setdefault(task_id, {...}) would
KeyErrorRecreates ==
    /\ task = None
    /\ task' = Some([NewTask EXCEPT !.status = "failed"])
    /\ pc' = "failed"

\* task_storage[task_id][...] = ... when the task was deleted: the KeyError
\* reaches the except clause of run_agent_task, whose own assignment to
\* task_storage[task_id] raises KeyError again and ends the background run
KeyError ==
    /\ task = None
    /\ pc' = "crashed"
    /\ UNCHANGED task

\* a variant that writes the progress marker and leaves the status alone
StartTaskProgressOnly ==
    /\ pc = "queued"
    /\ \/ KeyError
       \/ /\ task # None
          /\ task' = Some([The(task) EXCEPT !.progress = "planner"])
          /\ pc' = "init"
    /\ call' = NoCall
    /\ UNCHANGED <<fsVars, rootVars, allocVars, node, state, merges, supersteps,
                   session, executed, invoked, exc, oracle>>

\* run_agent_task, lines 75-76
StartTask ==
    /\ pc = "queued"
    /\ \/ KeyError
       \/ /\ task # None
          /\ task' = Some([The(task) EXCEPT !.status = "processing", !.progress = "planner"])
          /\ pc' = "init"
    /\ call' = NoCall
    /\ UNCHANGED <<fsVars, rootVars, allocVars, node, state, merges, supersteps,
                   session, executed, invoked, exc, oracle>>

\* run_agent_task, lines 86-95: the progress marker, then agent.invoke
\* enters the graph with {"user_prompt", "project_root"}
BeginInvoke ==
    /\ pc = "init"
    /\ alloc["t1"].pc = "running"
    /\ \/ /\ KeyError
          /\ UNCHANGED <<node, state, supersteps>>
       \/ /\ task # None
          /\ task' = Some([The(task) EXCEPT !.progress = "architect"])
          /\ pc' = "invoke"
          /\ node' = "planner"
          /\ state' = [NoState EXCEPT !.project_root = Some(project_path("t1"))]
          /\ supersteps' = 0
    /\ call' = NoCall
    /\ UNCHANGED <<fsVars, rootVars, allocVars, merges, session, executed, invoked,
                   exc, oracle>>

\* a variant that lets a node start while a coder step is still in its
\* session
MayRunDuringSession(n) ==
    /\ pc = "invoke"
    /\ node = n
    /\ supersteps < RecursionLimit

\* the graph may run node n now
MayRun(n) ==
    /\ pc = "invoke"
    /\ node = n
    /\ ~session.active
    /\ supersteps < RecursionLimit

Entered(n) ==
    /\ invoked' = [invoked EXCEPT ![n] = @ + 1]
    /\ supersteps' = supersteps + 1

\* set_project_root(Path(project_root_str)) when the state holds project_root
BindFromState ==
    IF state["project_root"] # None
    THEN /\ thread_local' = set_project_root_tl("t1", The(state["project_root"]))
         /\ global_root' = state["project_root"]
    ELSE UNCHANGED rootVars

\* a variant that leaves the coder as soon as the cursor has reached the
\* end of the steps, without a further invocation
RouteWhenCursorAtEnd(st) ==
    IF st["status"] = Some("DONE") THEN "reviewer"
    ELSE IF st["coder_state"] # None
            /\ The(st["coder_state"]).current_step_idx
                  >= Len(The(st["coder_state"]).task_plan.implementation_steps)
         THEN "reviewer"
    ELSE "coder"

\* a variant that leaves the coder once one step is written
RouteAfterOneStep(st) ==
    IF st["status"] = Some("DONE") THEN "reviewer"
    ELSE IF st["coder_state"] # None
            /\ The(st["coder_state"]).current_step_idx >= 1 THEN "reviewer"
    ELSE "coder"

\* a variant that leads back to the coder whatever the status
RouteToCoder(st) == "coder"

\* a variant that leads to the reviewer whatever the status
RouteToReviewer(st) == "reviewer"

\* the conditional edge out of the coder, on the state the coder left
Route(st) == IF st["status"] = Some("DONE") THEN "reviewer" ELSE "coder"

\* the graph library stops an invocation that needs more steps than
\* recursion_limit (GraphRecursionError)
GraphRecursionError ==
    /\ pc = "invoke"
    /\ node # "END"
    /\ ~session.active
    /\ supersteps >= RecursionLimit
    /\ Throw("graph", "GraphRecursionError")
    /\ call' = NoCall
    /\ UNCHANGED <<fsVars, rootVars, allocVars, task, node, state, merges,
                   supersteps, session, executed, invoked, oracle>>

\* a variant without the check for None
planner_agent_unchecked(resp) ==
    /\ state' = Update([k \in {"plan"} |-> resp])
    /\ node' = "architect"
    /\ UNCHANGED <<pc, exc>>

\* planner_agent, given the oracle's answer resp (None or a Plan)
planner_agent(resp) ==
    IF resp = None
    THEN /\ Throw("planner", "ValueError")
         /\ UNCHANGED <<node, state>>
    ELSE /\ state' = Update([k \in {"plan"} |-> resp])
         /\ node' = "architect"
         /\ UNCHANGED <<pc, exc>>

PlannerAgent ==
    /\ MayRun("planner")
    /\ Entered("planner")
    /\ \E resp \in {None} \cup {Some(pl) : pl \in Plans} :
          /\ oracle' = [oracle EXCEPT
                          !.planner = IF resp = None THEN "none" ELSE "plan",
                          !.plan = resp]
          /\ planner_agent(resp)
    /\ call' = NoCall
    /\ UNCHANGED <<fsVars, rootVars, allocVars, task, merges, session, executed>>


\* a variant that hands on the TaskPlan as the oracle returned it
architect_agent_keep_plan(resp) ==
    IF resp = None
    THEN /\ Throw("architect", "ValueError")
         /\ UNCHANGED <<node, state>>
    ELSE /\ state' = Update([k \in {"task_plan"} |-> resp])
         /\ node' = "coder"
         /\ UNCHANGED <<pc, exc>>

\* a variant that asks the oracle again when it returned None
architect_agent_retry(resp) ==
    IF resp = None
    THEN /\ node' = "architect"
         /\ UNCHANGED <<pc, exc, state>>
    ELSE /\ state' = Update([k \in {"task_plan"} |->
                               Some([The(resp) EXCEPT !.plan = state["plan"]])])
         /\ node' = "coder"
         /\ UNCHANGED <<pc, exc>>

\* architect_agent, given the oracle's answer resp (None or a TaskPlan)
architect_agent(resp) ==
    IF resp = None
    THEN /\ Throw("architect", "ValueError")
         /\ UNCHANGED <<node, state>>
    ELSE /\ state' = Update([k \in {"task_plan"} |->
                               Some([The(resp) EXCEPT !.plan = state["plan"]])])
         /\ node' = "coder"
         /\ UNCHANGED <<pc, exc>>

\* the step paths the architect's oracle may name: two inside the root and
\* one that climbs out of it
StepPaths ==
    { IndexHtml,
      Rel(<< <<"css">>, <<"style.css">> >>),
      Rel(<< DOTDOT, <<"escape.html">> >>) }

\* the longest plan the oracle returns, but for LongPlan
MaxSteps == 2

\* a plan with as many steps as the graph may take in all
LongPlan == [i \in 1..RecursionLimit |-> IndexHtml]

PlanChoices == SeqsUpTo(StepPaths, MaxSteps) \cup {LongPlan}

TaskPlans ==
    { [plan |-> pl, implementation_steps |-> steps] :
        pl \in {None, Some("P2")}, steps \in PlanChoices }

ArchitectAgent ==
    /\ MayRun("architect")
    /\ Entered("architect")
    /\ \E resp \in {None} \cup {Some(tp) : tp \in TaskPlans} :
          /\ oracle' = [oracle EXCEPT
                          !.architect = IF resp = None THEN "none" ELSE "plan",
                          !.steps = IF resp = None THEN <<>>
                                    ELSE The(resp).implementation_steps]
          /\ architect_agent(resp)
    /\ call' = NoCall
    /\ UNCHANGED <<fsVars, rootVars, allocVars, task, merges, session, executed>>

\* a variant that takes the steps from the end of the list
current_task_reversed(cs) ==
    cs.task_plan.implementation_steps[
        Len(cs.task_plan.implementation_steps) - cs.current_step_idx]

\* steps[coder_state.current_step_idx], as a path argument
current_task(cs) == cs.task_plan.implementation_steps[cs.current_step_idx + 1]

\* a variant that advances by two
NextIdxSkip(i) == i + 2

\* coder_state.current_step_idx += 1
NextIdx(i) == i + 1

\* coder_agent up to the tool session: the early return with DONE, or the
\* read of the step's file and the start of the session
CoderAgent ==
    /\ MayRun("coder")
    /\ Entered("coder")
    /\ BindFromState
    /\ LET cs == IF state["coder_state"] = None
                 THEN [task_plan |-> The(state["task_plan"]), current_step_idx |-> 0]
                 ELSE The(state["coder_state"])
           steps == cs.task_plan.implementation_steps
       IN  IF cs.current_step_idx >= Len(steps)
           THEN /\ state' = Update([k \in {"coder_state", "status"} |->
                                      IF k = "status" THEN Some("DONE") ELSE Some(cs)])
                /\ node' = Route(state')
                /\ UNCHANGED <<pc, exc, session, executed>>
           ELSE /\ executed' = Append(executed, current_task(cs))
                /\ LET existing == read_file("t1", current_task(cs))
                   IN  IF existing.kind # "ok"
                       THEN /\ Throw("coder.read_file", existing.kind)
                            /\ UNCHANGED session
                       ELSE /\ session' = [active |-> TRUE, iter |-> 0,
                                           wrote |-> FALSE, cs |-> Some(cs)]
                            /\ UNCHANGED <<pc, exc>>
                /\ UNCHANGED <<node, state>>
    /\ call' = NoCall
    /\ UNCHANGED <<fsVars, allocVars, task, merges, oracle>>


\* the tool session of one coder step ends with GraphRecursionError once it
\* has taken this many oracle-response/tool-execution rounds
SessionCap == 2

SessionContents == {<<>>, <<"c1">>}

\* what a tool of the session returns when the oracle calls it
SessionToolResult(th, op, path, content) ==
    IF op = "write_file" THEN write_file(th, path, content)
    ELSE IF op = "read_file" THEN read_file(th, path)
    ELSE IF op = "list_files" THEN list_files(th, path)
    ELSE get_current_directory(th)

\* one round of react_agent.invoke: the oracle calls a tool, on the run's
\* thread or on a pool thread; an exception of the tool is handed back to
\* the oracle as a message (handled) or leaves the session, as the tool
\* node of the library in use does
SessionTool(th, op, path, content, handled) ==
    /\ pc = "invoke"
    /\ session.active
    /\ session.iter < SessionCap
    /\ LET res == SessionToolResult(th, op, path, content)
       IN  /\ Apply(res)
           /\ res.kind = "ok" => handled
           /\ IF handled
              THEN /\ session' = [session EXCEPT
                                    !.iter = @ + 1,
                                    !.wrote = @ \/ (op = "write_file" /\ res.kind = "ok")]
                   /\ UNCHANGED <<pc, exc>>
              ELSE /\ Throw("coder.session", res.kind)
                   /\ UNCHANGED session
    /\ call' = NoCall
    /\ UNCHANGED <<rootVars, allocVars, task, node, state, merges, supersteps,
                   executed, invoked, oracle>>

\* the oracle asks for one round more than the session may take
SessionOverrun ==
    /\ pc = "invoke"
    /\ session.active
    /\ session.iter >= SessionCap
    /\ Throw("coder.session", "GraphRecursionError")
    /\ call' = NoCall
    /\ UNCHANGED <<fsVars, rootVars, allocVars, task, node, state, merges,
                   supersteps, session, executed, invoked, oracle>>

\* the oracle gives its final answer: coder_agent, lines 582-600
SessionFinish ==
    /\ pc = "invoke"
    /\ session.active
    /\ LET cs == The(session.cs)
       IN  state' = Update([k \in {"coder_state"} |->
                              Some([cs EXCEPT !.current_step_idx = NextIdx(@)])])
    /\ node' = Route(state')
    /\ session' = NoSession
    /\ call' = NoCall
    /\ UNCHANGED <<fsVars, rootVars, allocVars, task, pc, merges, supersteps,
                   executed, invoked, exc, oracle>>

\* a variant that keeps every step file it could read, empty or not
generated_files_any(steps) ==
    { steps[i] : i \in { j \in 1..Len(steps) :
                           read_file("t1", steps[j]).kind = "ok" } }

\* the step files the reviewer read with non-empty content
generated_files(steps) ==
    { steps[i] : i \in { j \in 1..Len(steps) :
                           LET r == read_file("t1", steps[j])
                           IN  r.kind = "ok" /\ r.text # <<>> } }

ReviewerAgent ==
    /\ MayRun("reviewer")
    /\ supersteps' = supersteps + 1
    /\ BindFromState
    /\ LET skip == \/ state["coder_state"] = None
                   \/ generated_files(The(state["coder_state"]).task_plan.implementation_steps) = {}
       IN  /\ invoked' = [invoked EXCEPT
                            !["reviewer"] = @ + 1,
                            !["reviewer_llm"] = IF skip THEN @ ELSE @ + 1]
           /\ state' = Update([k \in {"review"} |->
                                 IF state["coder_state"] = None THEN Some("Skipped - no code to review")
                                 ELSE IF skip THEN Some("No files generated")
                                 ELSE Some("review")])
    /\ node' = "END"
    /\ call' = NoCall
    /\ UNCHANGED <<fsVars, allocVars, task, pc, merges, session, executed, exc, oracle>>

\* project_path.rglob("*"), files only, relative to project_path
rglob_files(root) ==
    { SubSeq(f, Len(root) + 1, Len(f)) :
        f \in { g \in DOMAIN files : IsAncestorOrSelf(root, g) /\ g # root } }

\* a variant that reports a run that left no file as failed
CompleteOnlyWithFiles ==
    /\ pc = "invoke"
    /\ node = "END"
    /\ task' = Some([The(task) EXCEPT
                       !.status = IF rglob_files(project_path("t1")) = {}
                                  THEN "failed" ELSE "completed",
                       !.progress = "done",
                       !.project_path = Some(project_path("t1")),
                       !.files = rglob_files(project_path("t1")),
                       !.completed_at = TRUE])
    /\ pc' = "done"
    /\ call' = NoCall
    /\ UNCHANGED <<fsVars, rootVars, allocVars, node, state, merges, supersteps,
                   session, executed, invoked, exc, oracle>>

\* run_agent_task, lines 98-112
Complete ==
    /\ pc = "invoke"
    /\ node = "END"
    /\ \/ KeyError
       \/ /\ task # None
          /\ task' = Some([The(task) EXCEPT
                             !.status = "completed", !.progress = "done",
                             !.project_path = Some(project_path("t1")),
                             !.files = IF exists(project_path("t1"))
                                       THEN rglob_files(project_path("t1")) ELSE {},
                             !.completed_at = TRUE])
          /\ pc' = "done"
    /\ call' = NoCall
    /\ UNCHANGED <<fsVars, rootVars, allocVars, node, state, merges, supersteps,
                   session, executed, invoked, exc, oracle>>

\* str(e) of the exception that reached run_agent_task
str_e(e) ==
    IF e.kind = "ValueError" /\ e.at = "planner"
    THEN "Planner did not return a valid response."
    ELSE IF e.kind = "ValueError" /\ e.at = "architect"
    THEN "Architect did not return a valid response."
    ELSE IF e.kind = "ValueError"
    THEN "Attempt to write outside project root"
    ELSE IF e.kind = "RuntimeError"
    THEN "PROJECT_ROOT not initialized."
    ELSE IF e.kind = "GraphRecursionError"
    THEN "Recursion limit reached without hitting a stop condition."
    ELSE "[Errno] operating system error"

\* run_agent_task, lines 114-118
Fail ==
    /\ pc = "raised"
    /\ \/ KeyError
       \/ /\ task # None
          /\ task' = Some([The(task) EXCEPT
                             !.status = "failed", !.error = Some(str_e(exc)),
                             !.completed_at = TRUE])
          /\ pc' = "failed"
    /\ call' = NoCall
    /\ UNCHANGED <<fsVars, rootVars, allocVars, node, state, merges, supersteps,
                   session, executed, invoked, exc, oracle>>

\* shutil.rmtree(root): root and everything below it, links not followed
rmtree(root) ==
    /\ dirs' = { d \in dirs : ~IsAncestorOrSelf(root, d) }
    /\ files' = [f \in { g \in DOMAIN files : ~IsAncestorOrSelf(root, g) } |-> files[f]]
    /\ symlinks' = [l \in { g \in DOMAIN symlinks : ~IsAncestorOrSelf(root, g) } |->
                      symlinks[l]]

\* delete_task: 404 for a task the store does not hold; else the project
\* directory the record names is removed, then the record
DeleteTask ==
    /\ IF task = None
       THEN /\ call' = [NoCall EXCEPT !.op = "delete_task", !.kind = "404"]
            /\ UNCHANGED <<fsVars, task>>
       ELSE /\ IF The(task).project_path # None /\ exists(The(The(task).project_path))
               THEN rmtree(The(The(task).project_path))
               ELSE UNCHANGED fsVars
            /\ task' = None
            /\ call' = [NoCall EXCEPT !.op = "delete_task", !.kind = "200"]
    /\ UNCHANGED <<rootVars, allocVars, pc, node, state, merges, supersteps,
                   session, executed, invoked, exc, oracle>>

-----------------------------------------------------------------------------
(* SpecRun: one task, from build_website to its terminal status *)

SessionOps == {"write_file", "read_file", "list_files", "get_current_directory"}

InitRun ==
    /\ InitFs
    /\ thread_local = [t \in Threads |-> None]
    /\ global_root = None
    /\ alloc = [r \in RunThreads |-> [pc |-> "start", serial |-> 0]]
    /\ call = NoCall
    /\ allocated = <<>>
    /\ task = None
    /\ pc = "idle"
    /\ node = "planner"
    /\ state = NoState
    /\ merges \in BOOLEAN
    /\ supersteps = 0
    /\ session = NoSession
    /\ executed = <<>>
    /\ invoked = NoInvocations
    /\ exc = NoExc
    /\ oracle = NoOracle

NextRun ==
    \/ BuildWebsite
    \/ StartTask
    \/ pc = "init" /\ Scan("t1") /\ UNCHANGED pipeVars
    \/ pc = "init" /\ Mkdir("t1") /\ UNCHANGED pipeVars
    \/ pc = "init" /\ Bind("t1") /\ UNCHANGED pipeVars
    \/ pc = "init" /\ Rebind("t1") /\ UNCHANGED pipeVars
    \/ BeginInvoke
    \/ PlannerAgent
    \/ ArchitectAgent
    \/ CoderAgent
    \/ \E th \in {"t1", Worker("t1")}, path \in StepPaths :
          \/ \E content \in SessionContents, handled \in BOOLEAN :
                SessionTool(th, "write_file", path, content, handled)
          \/ \E handled \in BOOLEAN : SessionTool(th, "read_file", path, <<>>, handled)
    \/ \E th \in {"t1", Worker("t1")}, handled \in BOOLEAN :
          SessionTool(th, "list_files", Rel(<<>>), <<>>, handled)
    \/ \E th \in {"t1", Worker("t1")}, handled \in BOOLEAN :
          SessionTool(th, "get_current_directory", Rel(<<>>), <<>>, handled)
    \/ SessionOverrun
    \/ SessionFinish
    \/ GraphRecursionError
    \/ ReviewerAgent
    \/ Complete
    \/ Fail

SpecRun == InitRun /\ [][NextRun]_vars


-----------------------------------------------------------------------------
(* Claims about one run, under SpecRun *)

\* the steps of the TaskPlan the coder works through
Steps == oracle.steps

\* the CoderState in use: the one a running step holds, else the state's
CsNow == IF session.active THEN session.cs ELSE state["coder_state"]

Aborted == pc \in {"raised", "failed"}

\* C4: once planner and architect have succeeded the run never aborts, and
\* when the coder reports DONE it has executed exactly the N steps.
C4_CoderLoopCompletes ==
    /\ invoked["coder"] > 0 => ~Aborted
    /\ state["status"] = Some("DONE") => Len(executed) = Len(Steps)

\* C10: no run is aborted by something that happened inside a coder step
\* (the read of the step's target file, or its tool session).
C10_StepAnomaliesAbsorbed ==
    Aborted => exc.at \notin {"coder.read_file", "coder.session"}

\* C5: the steps the coder has begun are, at every moment, the first steps
\* of implementation_steps in list order, and all of them once it reports
\* DONE.
C5_StepsInListOrder ==
    /\ Len(executed) <= Len(Steps)
    /\ executed = SubSeq(Steps, 1, Len(executed))
    /\ state["status"] = Some("DONE") => executed = Steps

\* the coder reported DONE after two different steps
C5_Witness ==
    /\ state["status"] = Some("DONE")
    /\ Len(executed) = 2
    /\ executed[1] # executed[2]

C6_CursorInRange ==
    /\ CsNow # None =>
          /\ The(CsNow).current_step_idx >= 0
          /\ The(CsNow).current_step_idx
                <= Len(The(CsNow).task_plan.implementation_steps)
    /\ state["status"] = Some("DONE") =>
          /\ state["coder_state"] # None
          /\ The(state["coder_state"]).current_step_idx = Len(Steps)

C6_CursorStep ==
    /\ (CsNow = None /\ CsNow' # None) => The(CsNow').current_step_idx = 0
    /\ (CsNow # None /\ CsNow' # None) =>
          LET i == The(CsNow).current_step_idx
              j == The(CsNow').current_step_idx
          IN  /\ j = i \/ j = i + 1
              /\ j = i + 1 <=> (session.active /\ ~session'.active)
    /\ (invoked'["coder"] = invoked["coder"] + 1 /\ CsNow' # None) =>
          (state'["status"] = Some("DONE")
             <=> The(CsNow').current_step_idx = Len(Steps))

\* C6: the cursor stays within 0..len(implementation_steps), starts at 0,
\* moves only by +1 and only when a step completes, and a coder invocation
\* reports DONE exactly when it finds the cursor equal to the length.
C6_Cursor == []C6_CursorInRange /\ [][C6_CursorStep]_vars

\* the coder reported DONE with the cursor at the end of a two-step plan
C6_Witness ==
    /\ state["status"] = Some("DONE")
    /\ Len(Steps) = 2
    /\ The(state["coder_state"]).current_step_idx = 2

C7_PlannerAbortState ==
    oracle.planner = "none" =>
        /\ Aborted
        /\ exc.at = "planner"
        /\ \A m \in {"architect", "coder", "reviewer"} : invoked[m] = 0
        /\ rglob_files(project_path("t1")) = {}
        /\ pc = "failed" => The(task).status = "failed"

\* C7: when the planner's oracle returns None the run aborts: its only
\* further step records the status "failed"; the architect, the coder and
\* the reviewer never run and no file appears under the project root.
C7_PlannerAbort ==
    /\ []C7_PlannerAbortState
    /\ [][oracle.planner = "none" => pc' = "failed"]_vars

\* the planner's oracle returned None and the task is marked failed
C7_Witness ==
    /\ oracle.planner = "none"
    /\ pc = "failed"
    /\ The(task).status = "failed"

C8_ArchitectAbortState ==
    oracle.architect = "none" =>
        /\ Aborted
        /\ exc.at = "architect"
        /\ invoked["architect"] = 1
        /\ invoked["coder"] = 0
        /\ invoked["reviewer"] = 0
        /\ pc = "failed" => The(task).status = "failed"

\* C8: when the architect's oracle returns None the run aborts with status
\* "failed"; the architect has run once and is not run again, and neither
\* the coder nor the reviewer runs.
C8_ArchitectAbort ==
    /\ []C8_ArchitectAbortState
    /\ [][oracle.architect = "none" => pc' = "failed"]_vars

\* the architect's oracle returned None and the task is marked failed
C8_Witness ==
    /\ oracle.architect = "none"
    /\ pc = "failed"
    /\ The(task).status = "failed"


C11_TerminalReport ==
    /\ pc = "failed" =>
          /\ The(task).status = "failed"
          /\ The(task).error # None
          /\ The(The(task).error) # ""
          /\ exc # NoExc
    /\ pc = "done" =>
          /\ The(task).status = "completed"
          /\ The(task).error = None
          /\ The(task).files = rglob_files(project_path("t1"))
          /\ exc = NoExc
    /\ task # None =>
          /\ The(task).status = "failed" <=> pc = "failed"
          /\ The(task).status = "completed" <=> pc = "done"

C11_TerminalStep ==
    /\ pc' = "failed" <=> pc = "raised"
    /\ pc' = "done" <=> (pc = "invoke" /\ node = "END")
    /\ pc' = "raised" => exc' # NoExc

\* C11: a run that an exception ended is reported "failed" with a
\* non-empty error text, a run whose graph reached its end is reported
\* "completed" with the files then under its project root (even when there
\* are none), and no run is reported both ways.
C11_FailedOrCompleted == []C11_TerminalReport /\ [][C11_TerminalStep]_vars

\* a step ran, no file was written, and the run is reported completed
C11_Witness ==
    /\ pc = "done"
    /\ Len(executed) > 0
    /\ The(task).status = "completed"
    /\ The(task).files = {}


-----------------------------------------------------------------------------
(* SpecLife: tasks are started one after the other, each may be deleted at *)
(* any moment of its life, and the next starts once the last is over and   *)
(* deleted.  The architect's oracle plans at most one step and the step's  *)
(* session writes index.html.                                              *)

InitLife == InitRun

NextLife ==
    \/ BuildWebsite
    \/ StartTask
    \/ pc = "init" /\ Scan("t1") /\ UNCHANGED pipeVars
    \/ pc = "init" /\ Mkdir("t1") /\ UNCHANGED pipeVars
    \/ pc = "init" /\ Bind("t1") /\ UNCHANGED pipeVars
    \/ pc = "init" /\ Rebind("t1") /\ UNCHANGED pipeVars
    \/ BeginInvoke
    \/ PlannerAgent
    \/ ArchitectAgent /\ oracle'.steps \in {<<>>, <<IndexHtml>>}
    \/ CoderAgent
    \/ SessionTool("t1", "write_file", IndexHtml, <<"c1">>, TRUE)
    \/ SessionFinish
    \/ ReviewerAgent
    \/ Complete
    \/ Fail
    \/ DeleteTask

SpecLife == InitLife /\ [][NextLife]_vars

StrictlyIncreasing(s) == \A i, j \in 1..Len(s) : i < j => s[i] < s[j]

\* C12: the serials that init_project_root has created, in the order it
\* created them, are strictly increasing, whatever deletions of project
\* roots happen in between.
C12_SerialsIncrease == StrictlyIncreasing(allocated)

\* C17: when delete_task removes a task's record, the project root the
\* task's run allocated does not exist afterwards.
C17_DeleteReleasesRoot ==
    [][ (task # None /\ task' = None
         /\ alloc["t1"].pc \in {"made", "bound", "running"})
        => project_path("t1") \notin dirs' ]_vars


-----------------------------------------------------------------------------
(* SpecSerial: init_project_root in a working directory that already holds *)
(* project directories and other entries.                                  *)

\* the working directory holds projects with serials up to this, and 10
MaxSerial == 4

\* entries that are no project directory: a suffix that is no number, an
\* empty suffix, and a name the glob does not match
OtherDirs ==
    { Append(Cwd, <<"generated", "_", "project", "_", "x">>),
      Append(Cwd, <<"generated", "_", "project", "_">>),
      Append(Cwd, <<"other", "_", "5">>) }

\* a regular file with the name of a project directory
ProjectFile == Append(Cwd, ProjectName(9))

InitSerial ==
    \E S \in SUBSET ((1..MaxSerial) \cup {10}), J \in SUBSET OtherDirs,
       F \in SUBSET {ProjectFile} :
       /\ dirs = BaseDirs \cup { ProjectPath(n) : n \in S } \cup J
       /\ files = [q \in {EtcPasswd} \cup F |-> IF q = EtcPasswd THEN <<"secret">> ELSE <<>>]
       /\ symlinks = [q \in {} |-> <<>>]
       /\ thread_local = [t \in Threads |-> None]
       /\ global_root = None
       /\ alloc = [r \in RunThreads |-> [pc |-> "start", serial |-> 0]]
       /\ allocated = <<>>
       /\ call = NoCall
       /\ PipeIdle

NextSerial ==
    \/ Scan("t1") /\ UNCHANGED pipeVars
    \/ Mkdir("t1") /\ UNCHANGED pipeVars
    \/ Bind("t1") /\ UNCHANGED pipeVars

SpecSerial == InitSerial /\ [][NextSerial]_vars

\* the serials N of the directories named generated_project_<N>
ExistingSerials == { n \in 1..(MaxSerial + 10) : ProjectPath(n) \in dirs }

-----------------------------------------------------------------------------
(* More claims about the file tools, under SpecTools *)

\* C14: right after write_file(p, c) returned, read_file(p) by the same
\* caller returns exactly c, whether or not the file or its parent
\* directories existed before.
C14_WriteThenRead ==
    (call.op = "write_file" /\ call.kind = "ok") =>
        LET r == read_file(call.thread, call.path)
        IN  r.kind = "ok" /\ r.text = call.content


\* the path argument names a place inside the caller's root where nothing
\* exists
AbsentInside(th, path) ==
    LET root == get_project_root(th)
    IN  /\ root # None
        /\ ~Escaping(root, path)
        /\ ~exists(resolve(The(root) \o path.segs))

\* C15: read_file of a path inside the root at which nothing exists returns
\* the empty text, raises nothing, and leaves every file, directory and link
\* as it was.
C15_ReadAbsent ==
    [][ (call'.op = "read_file" /\ AbsentInside(call'.thread, call'.path))
        => (call'.kind = "ok" /\ call'.text = <<>> /\ fsVars' = fsVars) ]_vars

\* read_file returned the empty text for a/b, which does not exist
C15_Witness ==
    /\ call.op = "read_file"
    /\ call.path = Rel(<< <<"a">>, <<"b">> >>)
    /\ AbsentInside(call.thread, call.path)
    /\ call.kind = "ok"
    /\ call.text = <<>>

AllOps == PathOps \cup {"get_current_directory"}

\* C16: a file tool called by a thread for which no root is bound, neither
\* its own nor the global one, raises the root-not-initialized error
\* (RuntimeError) and leaves every file, directory and link as it was.
C16_RootNotInitialized ==
    [][ (call'.op \in AllOps /\ get_project_root(call'.thread) = None)
        => (call'.kind = "RuntimeError" /\ fsVars' = fsVars) ]_vars

\* run_cmd was called with no root bound, and raised
C16_Witness ==
    /\ call.op = "run_cmd"
    /\ get_project_root(call.thread) = None
    /\ call.kind = "RuntimeError"


-----------------------------------------------------------------------------
(* api.py: get_file_content, and SpecServe: a finished task whose project  *)
(* is generated_project_1, next to a later project generated_project_10,   *)
(* is asked for files.                                                     *)

\* str(path): "/" before every name
RECURSIVE str_path(_)
str_path(p) ==
    IF p = <<>> THEN <<>>
    ELSE <<"/">> \o Head(p) \o str_path(Tail(p))

\* str.startswith
startswith(s, prefix) ==
    /\ Len(prefix) <= Len(s)
    /\ SubSeq(s, 1, Len(prefix)) = prefix

\* the operating system can walk the path: every name it passes through,
\* but for the last, is a directory or a link to one
RECURSIVE Walkable(_, _)
Walkable(cur, rest) ==
    IF rest = <<>> THEN TRUE
    ELSE LET s == Head(rest)
             nxt == Append(cur, s)
             to == IF nxt \in DOMAIN symlinks THEN symlinks[nxt] ELSE nxt
         IN  IF s = DOT THEN Walkable(cur, Tail(rest))
             ELSE IF s = DOTDOT
                  THEN Walkable(IF cur = <<>> THEN <<>> ELSE Front(cur), Tail(rest))
             ELSE IF Tail(rest) = <<>> THEN TRUE
             ELSE to \in dirs /\ Walkable(to, Tail(rest))

\* target.exists() and target.is_file()
is_file(target) == Walkable(<<>>, target) /\ resolve(target) \in DOMAIN files

HttpRet(kind, p, text) == Ret(kind, p, text, {}, 0, dirs, files, symlinks)

\* get_file_content(task_id, file_path): the status code, and on 200 the
\* file's content; Path(None) raises TypeError, which the server answers
\* with 500
get_file_content(file_path) ==
    IF task = None THEN HttpRet("404", <<>>, <<>>)
    ELSE IF The(task).status # "completed" THEN HttpRet("400", <<>>, <<>>)
    ELSE IF The(task).project_path = None THEN HttpRet("500", <<>>, <<>>)
    ELSE LET project == The(The(task).project_path)
             target_file == Join(project, file_path)
         IN  IF ~is_file(target_file) THEN HttpRet("404", <<>>, <<>>)
             ELSE IF ~startswith(str_path(resolve(target_file)),
                                 str_path(resolve(project)))
                  THEN HttpRet("403", <<>>, <<>>)
             ELSE HttpRet("200", resolve(target_file),
                          read_text(files[resolve(target_file)]))

GetFileContent(file_path) ==
    /\ call' = CallRec("get_file_content", "t1", file_path, <<>>, "",
                       get_file_content(file_path))
    /\ UNCHANGED <<fsVars, rootVars, allocVars, pipeVars>>

\* the file_path values requested
FileArgs ==
    { Rel(<< <<"index.html">> >>),
      Rel(<< <<"a">>, DOTDOT, <<"index.html">> >>),
      Rel(<< <<"missing.txt">> >>),
      Rel(<<>>),
      Rel(<< DOTDOT, ProjectName(10), <<"x">> >>),
      Rel(<< DOTDOT, DOTDOT, <<"etc">>, <<"passwd">> >>),
      Rel(<< <<"lnk">>, <<"passwd">> >>),
      PathArg(1, EtcPasswd) }

\* the records a task may hold once its run is over
OverTasks ==
    { [NewTask EXCEPT !.status = "completed", !.progress = "done",
                      !.project_path = Some(ProjectPath(1)),
                      !.files = {<< <<"index.html">> >>}, !.completed_at = TRUE],
      [NewTask EXCEPT !.status = "failed", !.progress = "architect",
                      !.error = Some("Planner did not return a valid response."),
                      !.completed_at = TRUE] }

InitServe ==
    \E F \in SUBSET { Append(ProjectPath(1), <<"index.html">>),
                      Append(ProjectPath(10), <<"x">>) } :
       /\ dirs = BaseDirs \cup {ProjectPath(1), Append(ProjectPath(1), <<"a">>),
                               ProjectPath(10)}
       /\ files = [q \in {EtcPasswd} \cup F |->
                     IF q = EtcPasswd THEN <<"secret">>
                     ELSE IF q = Append(ProjectPath(10), <<"x">>) THEN <<"other">>
                     ELSE <<"c1">>]
       /\ symlinks \in LinkChoices(ProjectPath(1))
       /\ thread_local = [t \in Threads |-> None]
       /\ global_root = Some(ProjectPath(10))
       /\ alloc = [r \in RunThreads |->
                     IF r = "t1" THEN [pc |-> "running", serial |-> 1]
                     ELSE [pc |-> "start", serial |-> 0]]
       /\ allocated = [i \in 1..10 |-> i]
       /\ call = NoCall
       /\ task \in {None} \cup { Some(t) : t \in OverTasks }
       /\ pc = IF task = None THEN "idle"
               ELSE IF The(task).status = "completed" THEN "done" ELSE "failed"
       /\ node = "planner"
       /\ state = NoState
       /\ merges = FALSE
       /\ supersteps = 0
       /\ session = NoSession
       /\ executed = <<>>
       /\ invoked = NoInvocations
       /\ exc = NoExc
       /\ oracle = NoOracle

NextServe == \E file_path \in FileArgs : GetFileContent(file_path)

SpecServe == InitServe /\ [][NextServe]_vars

\* C18: get_file_content answers with a file's content only when the file,
\* once resolved, is the task's project root or lies below it.
C18_FileContentConfined ==
    (call.op = "get_file_content" /\ call.kind = "200") =>
        Inside(call.p, resolve(The(The(task).project_path)))


-----------------------------------------------------------------------------
(* More claims about one run, under SpecRun *)

Done == state["status"] = Some("DONE")

C19_AfterDoneState ==
    /\ Done => node \in {"reviewer", "END"}
    /\ invoked["reviewer"] > 0 => node = "END"

C19_AfterDoneStep ==
    /\ (Done \/ invoked["reviewer"] > 0) =>
          /\ fsVars' = fsVars
          /\ invoked'["coder"] = invoked["coder"]
          /\ ~session'.active
    /\ (Done /\ ~Done') => invoked'["reviewer"] = invoked["reviewer"] + 1

\* C19: from the moment the coder reports DONE the next node is the
\* reviewer and then the end of the graph; no step of the run changes a
\* file after that, and the coder is not entered again.
C19_NoMutationAfterDone == []C19_AfterDoneState /\ [][C19_AfterDoneStep]_vars

\* the coder reported DONE after writing a file, and the reviewer has run
C19_Witness ==
    /\ invoked["reviewer"] = 1
    /\ rglob_files(project_path("t1")) # {}
    /\ pc = "done"

\* C20: the reviewer is entered only when the coder has reported DONE, with
\* every step executed and no step's session open; afterwards no file
\* changes.
C20_ReviewAfterDone ==
    [][ /\ invoked'["reviewer"] # invoked["reviewer"] =>
             /\ Done
             /\ ~session.active
             /\ Len(executed) = Len(Steps)
             /\ The(state["coder_state"]).current_step_idx = Len(Steps)
        /\ invoked["reviewer"] > 0 => files' = files ]_vars

\* the reviewer has read the file that the two steps of the plan wrote
C20_Witness ==
    /\ invoked["reviewer_llm"] = 1
    /\ Len(executed) = 2
    /\ state["review"] = Some("review")


Nodes == {"planner", "architect", "coder", "reviewer"}

\* node n is entered in this step
Enters(n) == invoked'[n] = invoked[n] + 1

C21_OrderState ==
    /\ invoked["planner"] <= 1
    /\ invoked["architect"] <= invoked["planner"]
    /\ invoked["coder"] > 0 => invoked["architect"] = 1
    /\ invoked["reviewer"] > 0 => invoked["coder"] > 0
    /\ session.active => node = "coder"

C21_OrderStep ==
    /\ \A n \in Nodes : invoked'[n] = invoked[n] \/ Enters(n)
    /\ \A n, m \in Nodes : (Enters(n) /\ Enters(m)) => n = m
    /\ (\E n \in Nodes : Enters(n)) => ~session.active
    /\ Enters("architect") => (oracle.planner = "plan" /\ state["plan"] # None)
    /\ Enters("coder") =>
          /\ oracle.architect = "plan"
          /\ state["task_plan"] # None \/ state["coder_state"] # None
    /\ Enters("reviewer") => Done

\* C21: planner, architect, coder steps and reviewer run one at a time and
\* in that order: no node is entered while a coder step's session is open,
\* the architect is entered only with the planner's Plan in the state, and
\* the coder only with the architect's TaskPlan.
C21_StagesInSeries == []C21_OrderState /\ [][C21_OrderStep]_vars

\* two coder steps ran one after the other and the reviewer after them
C21_Witness ==
    /\ invoked["planner"] = 1
    /\ invoked["architect"] = 1
    /\ invoked["coder"] = 3
    /\ invoked["reviewer"] = 1
    /\ Len(executed) = 2

\* C22: while the task is "processing" and the graph runs, the progress
\* marker names the node that is running, and the marker is "done" exactly
\* when the status is "completed".
C22_ProgressNamesStage ==
    task # None =>
        /\ (The(task).status = "processing" /\ pc = "invoke" /\ node \in Nodes)
              => The(task).progress = node
        /\ The(task).progress = "done" <=> The(task).status = "completed"


-----------------------------------------------------------------------------
(* Claims about list_files and run_cmd, under SpecTools *)

\* the directory argument names a place inside the caller's root that is
\* not a directory
NotADirectoryInside(th, directory) ==
    LET root == get_project_root(th)
    IN  /\ root # None
        /\ ~Escaping(root, directory)
        /\ resolve(The(root) \o directory.segs) \notin dirs

\* C23: list_files of a target inside the root that is not a directory
\* raises the not-a-directory error; it does not return.
C23_ListFilesNotADirectory ==
    (call.op = "list_files" /\ NotADirectoryInside(call.thread, call.path))
    => call.kind = "NotADirectoryError"

\* run_cmd was given a working directory it accepts
CwdAccepted(th, cwd) ==
    LET root == get_project_root(th)
    IN  /\ root # None
        /\ ~Escaping(root, cwd)
        /\ resolve(The(root) \o cwd.segs) \in dirs

\* C24: when the command outlasts its timeout, run_cmd returns a result
\* with a non-zero exit code; it does not raise.
C24_TimeoutIsAResult ==
    (call.op = "run_cmd" /\ call.cmd = "sleep 60"
     /\ CwdAccepted(call.thread, call.path))
    => (call.kind = "ok" /\ call.code # 0)

-----------------------------------------------------------------------------
(* Claims about the root binding, under SpecConc *)

\* thread t has called set_project_root: a run thread does in
\* init_project_root and again in run_agent_task and in the graph nodes, a
\* pool thread never does
HasBound(t) == t \in RunThreads /\ Running(t)

\* C26: get_project_root returns, to a thread that has bound a root, the
\* root that thread bound last, whatever any other thread bound before or
\* after; a thread that has bound none gets the shared default.
C26_OwnBindingFirst ==
    /\ \A t \in Threads :
          IF HasBound(t)
          THEN get_project_root(t) = Some(project_path(t))
          ELSE get_project_root(t) = global_root
    /\ (call.op = "get_current_directory" /\ HasBound(call.thread))
          => (call.kind = "ok" /\ call.p = project_path(call.thread))

\* both runs are bound to different roots, the shared default is the root
\* of run t2, and run t1 asked for its directory and got its own
C26_Witness ==
    /\ HasBound("t1") /\ HasBound("t2")
    /\ project_path("t1") # project_path("t2")
    /\ global_root = Some(project_path("t2"))
    /\ call.op = "get_current_directory" /\ call.thread = "t1"
    /\ call.p = project_path("t1")

-----------------------------------------------------------------------------
(* Claims about the edges of the graph, under SpecRun *)

\* current_step_idx as the running (or next) invocation of the coder found
\* it on entry
CoderIdx ==
    IF session.active THEN The(session.cs).current_step_idx
    ELSE IF state["coder_state"] = None THEN 0
    ELSE The(state["coder_state"]).current_step_idx

\* an invocation of the coder returns in this step: at once, or at the end
\* of its tool session
CoderReturns ==
    \/ Enters("coder") /\ ~session'.active /\ pc' = "invoke"
    \/ session.active /\ ~session'.active /\ pc' = "invoke"

C25_Edges ==
    /\ node = "planner" =>
          /\ node' \in {"planner", "architect"}
          /\ node' = "architect" => Enters("planner")
    /\ node = "architect" =>
          /\ node' \in {"architect", "coder"}
          /\ node' = "coder" => Enters("architect")
    /\ node = "coder" =>
          /\ node' \in {"coder", "reviewer"}
          /\ node' = "reviewer" => CoderReturns
          /\ CoderReturns => (node' = "reviewer" <=> CoderIdx = Len(Steps))
    /\ node = "reviewer" => node' \in {"reviewer", "END"}
    /\ node = "END" => node' = "END"
    /\ Aborted => (node' = node /\ \A n \in Nodes : ~Enters(n))

C25_NoRetry ==
    /\ invoked["planner"] <= 1
    /\ invoked["architect"] <= 1
    /\ invoked["reviewer"] <= 1

\* C25: an invocation of the coder is followed by the reviewer exactly
\* when it found current_step_idx equal to the number of steps, and by the
\* coder otherwise; every other node has its one successor, no node is
\* entered a second time for a retry, and none is entered after an error.
C25_OnlyBranchIsCoderLoop == []C25_NoRetry /\ [][C25_Edges]_vars

\* the coder found both steps done and handed over to the reviewer
C25_Witness ==
    /\ pc = "invoke"
    /\ node = "reviewer"
    /\ invoked["coder"] = 3
    /\ invoked["reviewer"] = 0
    /\ CoderIdx = 2 /\ Len(Steps) = 2

-----------------------------------------------------------------------------
(* Claims about the tool session of a coder step, under SpecRun *)

\* the session has taken all the rounds it may take
SessionExhausted == pc = "invoke" /\ session.active /\ session.iter >= SessionCap

StepFile == resolve(project_path("t1") \o current_task(The(session.cs)).segs)

\* the regular files that this step creates, removes or changes
Touched ==
    { f \in DOMAIN files \cup DOMAIN files' :
         \/ f \notin DOMAIN files
         \/ f \notin DOMAIN files'
         \/ files[f] # files'[f] }

\* C28: while implementation step i is in its session, the only file
\* created or modified is the one that step names.
C28_StepWritesOnlyItsFile ==
    [][ (pc = "invoke" /\ session.active) => Touched \subseteq {StepFile} ]_vars

-----------------------------------------------------------------------------
(* Claims about the reviewer, under SpecRun *)

\* the file that step names exists under the run's root as a regular file
\* with non-empty content
HasContent(step) ==
    LET root == resolve(project_path("t1"))
        p    == resolve(project_path("t1") \o step.segs)
    IN  /\ Inside(p, root)
        /\ p \in DOMAIN files
        /\ files[p] # <<>>

\* reviewer_llm.invoke is called in this step
ReviewerAsksOracle == invoked'["reviewer_llm"] = invoked["reviewer_llm"] + 1

FixedReviews == {Some("Skipped - no code to review"), Some("No files generated")}

C29_AtMostOnce ==
    /\ invoked["reviewer"] <= 1
    /\ invoked["reviewer_llm"] <= invoked["reviewer"]

C29_ReviewerStep ==
    /\ invoked'["reviewer_llm"] # invoked["reviewer_llm"]
          => (Enters("reviewer") /\ ReviewerAsksOracle)
    /\ Enters("reviewer") =>
          /\ ReviewerAsksOracle
                <=> /\ state["coder_state"] # None
                    /\ \E i \in 1..Len(Steps) : HasContent(Steps[i])
          /\ ~ReviewerAsksOracle => state'["review"] \in FixedReviews
          /\ node' = "END"
          /\ fsVars' = fsVars
    /\ node = "END" => (node' = "END" /\ \A n \in Nodes : ~Enters(n))

\* C29: the reviewer asks its oracle at most once in a run, and only when
\* a CoderState is present and some step's file exists with non-empty
\* content; otherwise it returns one of its two fixed results.  It writes
\* no file, and nothing but the end of the graph follows it.
C29_ReviewerOnceOrNever == []C29_AtMostOnce /\ [][C29_ReviewerStep]_vars

\* a step ran and left its file empty or absent: the reviewer returned its
\* fixed result and did not ask the oracle
C29_Witness ==
    /\ invoked["reviewer"] = 1
    /\ invoked["reviewer_llm"] = 0
    /\ state["review"] = Some("No files generated")
    /\ Len(executed) >= 1
    /\ node = "END"

-----------------------------------------------------------------------------
(* Claims about the architect's TaskPlan, under SpecRun *)

\* the Plan the planner produced for this run
PlannerPlan == oracle.plan

\* C30: the TaskPlan in the graph state, in the CoderState and in the hands
\* of a running coder step refers back to the Plan the planner produced,
\* whatever the architect's oracle put in that field.
C30_PlanBackReference ==
    /\ state["task_plan"] # None =>
          (PlannerPlan # None /\ The(state["task_plan"]).plan = PlannerPlan)
    /\ state["coder_state"] # None =>
          (PlannerPlan # None /\ The(state["coder_state"]).task_plan.plan = PlannerPlan)
    /\ session.active =>
          (PlannerPlan # None /\ The(session.cs).task_plan.plan = PlannerPlan)

\* a coder step works on a TaskPlan whose back-reference is the planner's
\* Plan, while the architect's oracle had left it absent or named another
C30_Witness ==
    /\ session.active
    /\ The(session.cs).task_plan.plan = Some("P1")
    /\ PlannerPlan = Some("P1")
    /\ \A tp \in TaskPlans : tp.plan # Some("P1")

-----------------------------------------------------------------------------
(* SpecStore: the task store under concurrent requests.  run_agent_task    *)
(* runs in a pool thread and writes its report into the task's record one  *)
(* field at a time; the endpoints run in other threads and read or delete   *)
(* the record between any two of these writes.                             *)

\* task_storage[task_id][field] = value by run_agent_task standing at `at`,
\* which goes on to `to`
StoreWrite(at, to, field, value) ==
    /\ pc = at
    /\ \/ KeyError
       \/ /\ task # None
          /\ task' = Some([The(task) EXCEPT ![field] = value])
          /\ pc' = to
    /\ call' = NoCall
    /\ UNCHANGED <<fsVars, rootVars, allocVars, node, state, merges, supersteps,
                   session, executed, invoked, exc, oracle>>

\* run_agent_task, lines 98-106: nothing changes a file between the listing
\* of the files and the write of line 109, where the model takes the listing
CompleteStatus ==
    /\ node = "END"
    /\ StoreWrite("invoke", "line 107", "status", "completed")

CompleteProgress == StoreWrite("line 107", "line 108", "progress", "done")

CompleteProjectPath ==
    StoreWrite("line 108", "line 109", "project_path", Some(project_path("t1")))

CompleteFiles ==
    StoreWrite("line 109", "line 110", "files",
               IF exists(project_path("t1"))
               THEN rglob_files(project_path("t1")) ELSE {})

CompleteAt == StoreWrite("line 110", "done", "completed_at", TRUE)

\* run_agent_task, lines 114-118
FailStatus == StoreWrite("raised", "line 117", "status", "failed")

FailError == StoreWrite("line 117", "line 118", "error", Some(str_e(exc)))

FailAt == StoreWrite("line 118", "failed", "completed_at", TRUE)

\* the response to a request: the status code, and on 200 the project
\* path, the texts and the file names it carries
HttpData(kind, p, text, listing) == Ret(kind, p, text, listing, 0, dirs, files, symlinks)

\* get_task_status(task_id)
get_task_status ==
    IF task = None THEN HttpRet("404", <<>>, <<>>)
    ELSE HttpData("200",
                  IF The(task).project_path = None THEN <<>>
                  ELSE The(The(task).project_path),
                  <<The(task).status, The(task).progress>>, {})

\* a variant that answers with the record's files whatever its status
get_build_result_any_status ==
    IF task = None THEN HttpRet("404", <<>>, <<>>)
    ELSE HttpData("200",
                  IF The(task).project_path = None THEN <<>>
                  ELSE The(The(task).project_path),
                  <<>>, The(task).files)

\* get_build_result(task_id): BuildResult requires project_path to be a
\* string, and the server answers its validation error with 500
get_build_result ==
    IF task = None THEN HttpRet("404", <<>>, <<>>)
    ELSE IF The(task).status # "completed" THEN HttpRet("400", <<>>, <<>>)
    ELSE IF The(task).project_path = None THEN HttpRet("500", <<>>, <<>>)
    ELSE HttpData("200", The(The(task).project_path), <<>>, The(task).files)

\* download_project(task_id): the names of the files in the archive;
\* Path(None) raises TypeError, which the server answers with 500
download_project ==
    IF task = None THEN HttpRet("404", <<>>, <<>>)
    ELSE IF The(task).status # "completed" THEN HttpRet("400", <<>>, <<>>)
    ELSE IF The(task).project_path = None THEN HttpRet("500", <<>>, <<>>)
    ELSE LET project == The(The(task).project_path)
         IN  IF ~exists(project) THEN HttpRet("404", <<>>, <<>>)
             ELSE HttpData("200", project, <<>>, rglob_files(project))

Answer(op, res) ==
    /\ call' = CallRec(op, "t1", Rel(<<>>), <<>>, "", res)
    /\ UNCHANGED <<fsVars, rootVars, allocVars, pipeVars>>

GetTaskStatus == Answer("get_task_status", get_task_status)

GetBuildResult == Answer("get_build_result", get_build_result)

DownloadProject == Answer("download_project", download_project)

\* the file_path values requested of a project
StoreFileArgs == { IndexHtml, Rel(<< <<"missing.txt">> >>) }

InitStore == InitRun

NextStore ==
    \/ BuildWebsite
    \/ StartTask
    \/ pc = "init" /\ Scan("t1") /\ UNCHANGED pipeVars
    \/ pc = "init" /\ Mkdir("t1") /\ UNCHANGED pipeVars
    \/ pc = "init" /\ Bind("t1") /\ UNCHANGED pipeVars
    \/ pc = "init" /\ Rebind("t1") /\ UNCHANGED pipeVars
    \/ BeginInvoke
    \/ PlannerAgent
    \/ ArchitectAgent /\ oracle'.steps \in {<<>>, <<IndexHtml>>}
    \/ CoderAgent
    \/ SessionTool("t1", "write_file", IndexHtml, <<"c1">>, TRUE)
    \/ SessionFinish
    \/ ReviewerAgent
    \/ CompleteStatus
    \/ CompleteProgress
    \/ CompleteProjectPath
    \/ CompleteFiles
    \/ CompleteAt
    \/ FailStatus
    \/ FailError
    \/ FailAt
    \/ GetTaskStatus
    \/ GetBuildResult
    \/ DownloadProject
    \/ \E file_path \in StoreFileArgs : GetFileContent(file_path)
    \/ DeleteTask

SpecStore == InitStore /\ [][NextStore]_vars

-----------------------------------------------------------------------------
(* Claims about the task store, under SpecStore *)

Statuses == {"pending", "processing", "completed", "failed"}

\* the changes of status a task may go through
StatusMoves ==
    { <<"pending", "processing">>,
      <<"processing", "completed">>,
      <<"processing", "failed">> }

C31_StatusState == task # None => The(task).status \in Statuses

C31_StatusStep ==
    /\ (task = None /\ task' # None) => The(task').status = "pending"
    /\ (task # None /\ task' # None) =>
          \/ The(task').status = The(task).status
          \/ <<The(task).status, The(task').status>> \in StatusMoves

\* C31: a task enters the store as pending and its status changes only
\* from pending to processing and from processing to completed or failed:
\* completed and failed are never left, pending is never returned to, and
\* neither completed nor failed is reached from pending.
C31_StatusMovesForward == []C31_StatusState /\ [][C31_StatusStep]_vars

\* a status request finds the task failed, after it was processing
C31_Witness ==
    /\ task # None
    /\ pc = "failed"
    /\ call.op = "get_task_status"
    /\ call.kind = "200"
    /\ call.text = <<"failed", "architect">>

\* C32: in every state of the store the record's error is set exactly when
\* its status is failed, its project_path exactly when it is completed, and
\* its completed_at exactly when it is completed or failed.
C32_FieldsMatchStatus ==
    task # None =>
        /\ The(task).error # None <=> The(task).status = "failed"
        /\ The(task).project_path # None <=> The(task).status = "completed"
        /\ The(task).completed_at <=> The(task).status \in {"completed", "failed"}

TaskEndpoints ==
    {"get_task_status", "get_build_result", "download_project",
     "get_file_content", "delete_task"}

\* the endpoints that hand out a project's files
DataEndpoints == {"get_build_result", "download_project", "get_file_content"}

\* C33: a request for a task the store does not hold gets 404 from every
\* task endpoint; the result, download and file-content endpoints answer
\* 400 with no path, file list or content for a task that is not completed,
\* and answer 200 only for a completed one.
C33_DataOnlyWhenCompleted ==
    [][ call'.op \in TaskEndpoints =>
          /\ task = None => call'.kind = "404"
          /\ (call'.op \in DataEndpoints /\ task # None
              /\ The(task).status # "completed")
                => /\ call'.kind = "400"
                   /\ call'.p = <<>>
                   /\ call'.text = <<>>
                   /\ call'.listing = {}
          /\ (call'.op \in DataEndpoints /\ call'.kind = "200")
                => (task # None /\ The(task).status = "completed") ]_vars

\* a download was asked of a failed task and refused
C33_Witness ==
    /\ task # None
    /\ The(task).status = "failed"
    /\ call.op = "download_project"
    /\ call.kind = "400"

\* C34: a record enters the store only as the fresh record that
\* build_website writes for a new task, when no background run is going:
\* once a task is deleted, no write of its still-running background run
\* brings it back.
C34_DeletedStaysDeleted ==
    [][ task = None =>
          \/ task' = None
          \/ /\ task' = Some(NewTask)
             /\ pc' = "queued"
             /\ (pc = "idle" \/ Over) ]_vars

\* the task was deleted while its run was going on, the run reached its
\* next write of the record, and the store still does not hold the task
C34_Witness ==
    /\ task = None
    /\ pc = "crashed"
    /\ Len(allocated) = 1
    /\ node = "END"

-----------------------------------------------------------------------------
(* Claims about the number of coder invocations, under SpecRun *)

\* the run has reached the reviewer
AtReviewer == node \in {"reviewer", "END"} \/ invoked["reviewer"] > 0

C35_CountState ==
    /\ AtReviewer =>
          /\ invoked["coder"] = Len(Steps) + 1
          /\ Len(executed) = Len(Steps)
    /\ (pc = "invoke" /\ ~AtReviewer) => ~Done

C35_CountStep ==
    /\ (Enters("coder") /\ invoked["coder"] < Len(Steps)) =>
          /\ executed' = Append(executed, Steps[invoked["coder"] + 1])
          /\ state'["status"] # Some("DONE")
          /\ node' = "coder"
    /\ (Enters("coder") /\ invoked["coder"] >= Len(Steps)) =>
          /\ invoked["coder"] = Len(Steps)
          /\ executed' = executed
          /\ fsVars' = fsVars
          /\ ~session'.active
          /\ state'["status"] = Some("DONE")
          /\ node' = "reviewer"
    /\ (session.active /\ ~session'.active) =>
          /\ state'["status"] # Some("DONE")
          /\ node' = "coder"

\* C35: with N steps, a run that reaches the reviewer has invoked the
\* coder N+1 times: each of the first N invocations begins the next step
\* and returns without DONE, the last step's included, and the one after
\* them begins no step, changes no file and sets DONE.
C35_OneInvocationMore == []C35_CountState /\ [][C35_CountStep]_vars

\* one step, two invocations of the coder, and the reviewer is due
C35_Witness ==
    /\ pc = "invoke"
    /\ node = "reviewer"
    /\ Len(Steps) = 1
    /\ Len(executed) = 1
    /\ invoked["coder"] = 2
    /\ Done

=============================================================================
